---- MODULE Spec2Model ----
(***************************************************************************)
(* Model of routesolver.py (two-phase restart hillclimb TSP solver) and of *)
(* the part of main.py that reports the total of the returned path.        *)
(* Python lists are 1-indexed TLA+ sequences holding 0-based city indices; *)
(* Python positions and slice bounds stay 0-based and are converted by     *)
(* At and Slice.  Costs are whole numbers, so float sums are exact.        *)
(* Spec runs solve_tsp_hillclimb and main's report on matrices of two and  *)
(* three cities; SpecOps calls the list functions directly on tours of up  *)
(* to MaxLen cities.                                                       *)
(***************************************************************************)
EXTENDS Integers, Sequences, FiniteSets, TLC

(* ---------------------------- bounds ----------------------------------- *)
\* largest max_iter (-i) the caller passes
MaxIter == 2
\* largest max_eval (-e) the caller passes
MaxEval == 4
\* longest tour the list functions are applied to on their own
MaxLen == 4

(* ------------------------ program constants ---------------------------- *)
\* solve_tsp_hillclimb normalizes with home = 0
Home == 0
\* fixed number of restart iterations of the second stage
StageTwoIterations == 2
\* stands for float("-inf"): below every score the bounded matrices allow
NegInf == -1000000

(* ------------------------- Python list helpers ------------------------- *)
Min(a, b) == IF a < b THEN a ELSE b
Max(a, b) == IF a > b THEN a ELSE b

\* s[k] for a 0-based position k
At(s, k) == s[k + 1]

\* s[a:b] for 0 <= a, 0 <= b (bounds clamped to len(s), empty when a >= b)
Slice(s, a, b) == SubSeq(s, Min(a, Len(s)) + 1, Min(b, Len(s)))

\* reversed(s)
Reverse(s) == [k \in 1..Len(s) |-> s[Len(s) + 1 - k]]

\* s[a:b] = v : the list after the slice assignment (lengths may differ)
SliceAssign(s, a, b, v) == Slice(s, 0, a) \o v \o Slice(s, Max(a, b), Len(s))

\* s.index(x): 0-based position of the first occurrence of x
Index(s, x) == (CHOOSE k \in 1..Len(s) : s[k] = x /\ \A m \in 1..(k - 1) : s[m] # x) - 1

\* every outcome of random.shuffle(list(range(n)))
Shuffles(n) == {p \in [1..n -> 0..(n - 1)] : \A a, b \in 1..n : p[a] = p[b] => a = b}

\* the Tour invariant: length n, every index of 0..n-1 exactly once
IsPermutation(t, n) ==
  /\ Len(t) = n
  /\ \A c \in 0..(n - 1) : Cardinality({k \in 1..Len(t) : t[k] = c}) = 1

\* number of positions of t holding c
Count(t, c) == Cardinality({k \in 1..Len(t) : t[k] = c})

(* --------------------------- all_pairs --------------------------------- *)
\* the pairs all_pairs yields when the two shuffles leave r1 and r2
all_pairs(size, r1, r2) ==
  [k \in 1..(size * size) |-> <<r1[((k - 1) \div size) + 1], r2[((k - 1) % size) + 1]>>]

(* ------------------------ reversed_sections ---------------------------- *)
\* reversed_copy with the second wraparound assignment (line 60) left out
reversed_copy_tail_only(tour, i_index, j_index) ==
  IF i_index < j_index
  THEN SliceAssign(tour, i_index, j_index + 1,
                   Reverse(Slice(tour, i_index, j_index + 1)))
  ELSE SliceAssign(tour, i_index + 1, Len(tour), Reverse(Slice(tour, 0, j_index)))

\* copy_tour after the body of the loop for the pair (i_index, j_index)
reversed_copy(tour, i_index, j_index) ==
  IF i_index < j_index
  THEN SliceAssign(tour, i_index, j_index + 1,
                   Reverse(Slice(tour, i_index, j_index + 1)))
  ELSE LET first == SliceAssign(tour, i_index + 1, Len(tour),
                                Reverse(Slice(tour, 0, j_index)))
       IN SliceAssign(first, 0, j_index,
                      Reverse(Slice(tour, i_index + 1, Len(tour))))

\* the caller's list after the body of the loop: line 51 copies it, and
\* lines 55-60 assign to the copy only
reversed_tour_after(tour, i_index, j_index) == tour

\* does reversed_sections yield a candidate for this pair
reversed_yields(tour, p) ==
  p[1] # p[2] /\ reversed_copy(tour, p[1], p[2]) # tour

\* the candidates reversed_sections(tour) yields, in order
reversed_sections(tour, r1, r2) ==
  LET kept == SelectSeq(all_pairs(Len(tour), r1, r2),
                        LAMBDA p : reversed_yields(tour, p))
  IN [k \in 1..Len(kept) |-> reversed_copy(tour, kept[k][1], kept[k][2])]

(* --------------------------- shift_cities ------------------------------ *)
\* copy_tour after the body of the loop for the pair (i_index, j_index)
shift_copy(tour, i_index, j_index) ==
  Slice(tour, 0, i_index) \o Slice(tour, i_index + 1, j_index)
    \o <<At(tour, i_index)>> \o Slice(tour, j_index, Len(tour))

\* the candidates shift_cities(tour) yields, in order
shift_cities(tour, r1, r2) ==
  LET kept == SelectSeq(all_pairs(Len(tour), r1, r2), LAMBDA p : p[1] # p[2])
  IN [k \in 1..Len(kept) |-> shift_copy(tour, kept[k][1], kept[k][2])]

(* ------------------------- tour_length_cycle --------------------------- *)
RECURSIVE CycleSum(_, _, _)
\* total_cost after the loop has run for i_index = 0 .. upto-1
CycleSum(matrix, tour, upto) ==
  IF upto = 0 THEN 0
  ELSE CycleSum(matrix, tour, upto - 1)
         + matrix[<<At(tour, upto - 1), At(tour, upto % Len(tour))>>]

tour_length_cycle(matrix, tour) == CycleSum(matrix, tour, Len(tour))

\* fitness with the negation (line 300) left out
fitness_not_negated(matrix, tour) == tour_length_cycle(matrix, tour)

\* fitness of solve_tsp_hillclimb: the negated cycle cost
fitness(matrix, tour) == 0 - tour_length_cycle(matrix, tour)

(* ------------------------ normalize_home_first ------------------------- *)
\* normalize_home_first with the second slice starting at 0 instead of 1
normalize_from_zero(tour, home) ==
  LET home_index == Index(tour, home)
  IN Slice(tour, home_index, Len(tour)) \o Slice(tour, 0, home_index + 1)

normalize_home_first(tour, home) ==
  LET home_index == Index(tour, home)
  IN Slice(tour, home_index, Len(tour)) \o Slice(tour, 1, home_index + 1)

\* lines 337-344 of solve_tsp_hillclimb: normalize, then close the tour
close_tour(final_tour_base) ==
  LET final_tour == normalize_home_first(final_tour_base, Home)
  IN IF At(final_tour, Len(final_tour) - 1) # Home
     THEN Append(final_tour, Home)
     ELSE final_tour

(* ------------------------ compute_reverse_cycle ------------------------ *)
\* compute_reverse_cycle that hands the path back as it came
reverse_cycle_unchanged(path) == path

\* [home, a, b, ..., z, home] |-> [home, z, ..., b, a, home]
compute_reverse_cycle(path) ==
  <<path[1]>> \o Reverse(SubSeq(path, 2, Len(path) - 1)) \o <<path[Len(path)]>>

(* --------------------------- input matrices ---------------------------- *)
Cities(n) == 0..(n - 1)

\* all travel costs zero: every tour ties
ZeroMatrix(n) == [p \in Cities(n) \X Cities(n) |-> 0]
\* one-way ring: cost(i, j) = (j - i) mod n, asymmetric for n > 2; for n = 2
\* it is test_matrix of routesolver.py with a zero diagonal
RingMatrix(n) == [p \in Cities(n) \X Cities(n) |-> (p[2] - p[1]) % n]
\* every entry one, the diagonal included
UnitMatrix(n) == [p \in Cities(n) \X Cities(n) |-> 1]
\* the symmetric three-point matrix of the end-to-end scenario:
\* cost(0,1) = 1, cost(0,2) = 5, cost(1,2) = 2
ScenarioMatrix ==
  [p \in Cities(3) \X Cities(3) |->
     IF p[1] = p[2] THEN 0
     ELSE IF p[1] + p[2] = 1 THEN 1
     ELSE IF p[1] + p[2] = 2 THEN 5
     ELSE 2]

\* the complete non-negative matrices the solver is run on
Matrices ==
  { ZeroMatrix(2), RingMatrix(2), UnitMatrix(2),
    ZeroMatrix(3), RingMatrix(3), UnitMatrix(3), ScenarioMatrix }

\* num_cities as solve_tsp_hillclimb infers it from the keys
NumCities(matrix) == Cardinality({p[1] : p \in DOMAIN matrix})

(* ------------------------------ state ---------------------------------- *)
VARIABLES
  matrix,             \* the cost matrix handed to solve_tsp_hillclimb
  max_iter,           \* its max_iter argument
  max_eval,           \* its max_eval argument
  pc,                 \* where the program is
  stage,              \* 1: reversed_sections stage, 2: shift_cities stage
  iteration_index,    \* hillclimb_and_restart: runs finished so far
  rc_best_tour,       \* hillclimb_and_restart: best_tour (<<>> is None)
  rc_best_score,      \* hillclimb_and_restart: best_score
  total_evaluations,  \* hillclimb_and_restart: total_evaluations
  hc_best_tour,       \* hillclimb: best_tour
  hc_best_score,      \* hillclimb: best_score
  num_evaluations,    \* hillclimb: num_evaluations
  move_made,          \* hillclimb: move_made
  candidates,         \* hillclimb: what the generator of this pass has left
  score_stage_one,    \* solve_tsp_hillclimb: score_stage_one
  stage_one_tour,     \* solve_tsp_hillclimb: best_tour
  score_stage_two,    \* solve_tsp_hillclimb: score_stage_two
  improved_tour,      \* solve_tsp_hillclimb: improved_tour
  final_tour_base,    \* solve_tsp_hillclimb: final_tour_base
  final_tour,         \* solve_tsp_hillclimb: the returned path
  total_seconds,      \* main: the reported total
  obj_calls,          \* history: objective_function calls of this hillclimb run
  init_score,         \* history: score of the initial tour of this run
  last_candidate,     \* history: the candidate evaluated last (<<>> if none)
  stop_reason,        \* history: how this run left its loops ("none" while running)
  pass_evaluated,     \* history: the candidates evaluated in the current pass
  run_scores,         \* history: score returned by each run of this restart loop
  run_tours,          \* history: tour returned by each run of this restart loop
  op_name,            \* direct call: which function was applied
  op_in,              \* direct call: its list argument
  op_args,            \* direct call: its integer arguments (pair or home)
  op_after,           \* direct call: the caller's list after the call
  op_out              \* direct call: what it returned

inputVars == <<matrix, max_iter, max_eval>>
rcVars == <<iteration_index, rc_best_tour, rc_best_score, total_evaluations>>
hcVars == <<hc_best_tour, hc_best_score, num_evaluations, move_made, candidates>>
solveVars == <<score_stage_one, stage_one_tour, score_stage_two, improved_tour,
               final_tour_base, final_tour, total_seconds>>
histVars == <<obj_calls, init_score, last_candidate, stop_reason, pass_evaluated>>
runVars == <<run_scores, run_tours>>
opVars == <<op_name, op_in, op_args, op_after, op_out>>
vars == <<inputVars, pc, stage, rcVars, hcVars, solveVars, histVars, runVars, opVars>>

\* max_iterations of the hillclimb_and_restart call of this stage
max_iterations == IF stage = 1 THEN max_iter ELSE StageTwoIterations

\* init_function of this stage: init_tour (any shuffle) or init_best (a copy)
InitTours ==
  IF stage = 1 THEN Shuffles(NumCities(matrix)) ELSE {stage_one_tour}

\* move_operator of this stage applied to tour, for one outcome of the shuffles
move_operator(tour, r1, r2) ==
  IF stage = 1 THEN reversed_sections(tour, r1, r2) ELSE shift_cities(tour, r1, r2)

\* the acceptance test with < in place of >
improves_reversed(candidate_score, best) == candidate_score < best

\* the acceptance test with >= in place of >
improves_or_ties(candidate_score, best) == candidate_score >= best

\* the acceptance test of hillclimb
improves(candidate_score, best) == candidate_score > best

\* line 158: the while test of hillclimb
budget_left(evaluations, max_evaluations) == evaluations < max_evaluations

\* the for loop without its budget test
budget_never_spent(evaluations, max_evaluations) == FALSE

\* line 164: the test that breaks out of the for loop
budget_spent(evaluations, max_evaluations) == evaluations >= max_evaluations

\* the replacement test with >= in place of >
replaces_on_tie(tour, score, best) == tour = <<>> \/ score >= best

\* the replacement test of hillclimb_and_restart
replaces(tour, score, best) == tour = <<>> \/ score > best

\* the selection test with < in place of >
selects_lower_score(score_two, score_one) == score_two < score_one

\* line 332: is the tour of the second stage the one selected
selects_stage_two(score_two, score_one) == score_two > score_one

(* ------------------------------ Init ----------------------------------- *)
NoSolve ==
  /\ score_stage_one = 0 /\ stage_one_tour = <<>>
  /\ score_stage_two = 0 /\ improved_tour = <<>>
  /\ final_tour_base = <<>> /\ final_tour = <<>> /\ total_seconds = 0

NoRestart ==
  /\ iteration_index = 0 /\ rc_best_tour = <<>> /\ rc_best_score = NegInf
  /\ total_evaluations = 0 /\ run_scores = <<>> /\ run_tours = <<>>

NoHillclimb ==
  /\ hc_best_tour = <<>> /\ hc_best_score = 0 /\ num_evaluations = 0
  /\ move_made = FALSE /\ candidates = <<>>
  /\ obj_calls = 0 /\ init_score = 0 /\ last_candidate = <<>>
  /\ stop_reason = "none" /\ pass_evaluated = {}

NoOp ==
  /\ op_name = "none" /\ op_in = <<>> /\ op_args = <<>>
  /\ op_after = <<>> /\ op_out = <<>>

Init ==
  /\ matrix \in Matrices
  /\ max_iter \in 1..MaxIter
  /\ max_eval \in 1..MaxEval
  /\ pc = "solve" /\ stage = 1
  /\ NoRestart /\ NoHillclimb /\ NoSolve /\ NoOp

(* ----------------------- hillclimb_and_restart ------------------------- *)
\* lines 209-212: the restart loop of this stage is entered
RestartBegin ==
  /\ pc = "solve"
  /\ iteration_index' = 0
  /\ rc_best_tour' = <<>>
  /\ rc_best_score' = NegInf
  /\ total_evaluations' = 0
  /\ run_scores' = <<>> /\ run_tours' = <<>>
  /\ pc' = "restart"
  /\ UNCHANGED <<inputVars, stage, hcVars, solveVars, histVars, opVars>>

(* ------------------------------ hillclimb ------------------------------ *)
\* lines 149-155: initial tour, its score, num_evaluations = 1
HillclimbBegin ==
  /\ pc = "restart"
  /\ iteration_index < max_iterations
  /\ \E tour \in InitTours :
       /\ hc_best_tour' = tour
       /\ hc_best_score' = fitness(matrix, tour)
       /\ init_score' = fitness(matrix, tour)
  /\ num_evaluations' = 1
  /\ obj_calls' = 1
  /\ move_made' = FALSE
  /\ candidates' = <<>>
  /\ last_candidate' = <<>>
  /\ stop_reason' = "none"
  /\ pass_evaluated' = {}
  /\ pc' = "while"
  /\ UNCHANGED <<inputVars, stage, rcVars, solveVars, runVars, opVars>>

\* line 158: the while test; lines 160-163: a pass starts and the generator
\* of move_operator(best_tour) is created
WhileTest ==
  /\ pc = "while"
  /\ IF budget_left(num_evaluations, max_eval)
     THEN /\ move_made' = FALSE
          /\ \E r1, r2 \in Shuffles(Len(hc_best_tour)) :
               candidates' = move_operator(hc_best_tour, r1, r2)
          /\ pass_evaluated' = {}
          /\ pc' = "for"
          /\ UNCHANGED stop_reason
     ELSE \* the while loop ends: the budget is spent
          /\ pc' = "return"
          /\ stop_reason' = "budget"
          /\ UNCHANGED <<move_made, candidates, pass_evaluated>>
  /\ UNCHANGED <<inputVars, stage, rcVars, hc_best_tour, hc_best_score,
                 num_evaluations, solveVars, obj_calls, init_score, last_candidate,
                 runVars, opVars>>

\* lines 163-181: one turn of the for loop, with what follows it when it ends
ForNext ==
  /\ pc = "for"
  /\ IF candidates = <<>>
     THEN \* the generator is exhausted; line 180: no move was made
          /\ pc' = "return"
          /\ stop_reason' = "no_improvement"
          /\ UNCHANGED <<hcVars, obj_calls, init_score, last_candidate, pass_evaluated>>
     ELSE IF budget_spent(num_evaluations, max_eval)
     THEN \* lines 164-165: break; move_made is still False
          /\ pc' = "return"
          /\ stop_reason' = "budget"
          /\ UNCHANGED <<hcVars, obj_calls, init_score, last_candidate, pass_evaluated>>
     ELSE LET candidate_tour == Head(candidates)
              candidate_score == fitness(matrix, candidate_tour)
          IN /\ num_evaluations' = num_evaluations + 1
             /\ obj_calls' = obj_calls + 1
             /\ last_candidate' = candidate_tour
             /\ pass_evaluated' = pass_evaluated \cup {candidate_tour}
             /\ UNCHANGED <<init_score, stop_reason>>
             /\ IF improves(candidate_score, hc_best_score)
                THEN /\ hc_best_tour' = candidate_tour
                     /\ hc_best_score' = candidate_score
                     /\ move_made' = TRUE
                     /\ candidates' = <<>>
                     /\ pc' = "while"
                ELSE /\ candidates' = Tail(candidates)
                     /\ pc' = "for"
                     /\ UNCHANGED <<hc_best_tour, hc_best_score, move_made>>
  /\ UNCHANGED <<inputVars, stage, rcVars, solveVars, runVars, opVars>>

\* lines 183-184 and 216-227: hillclimb returns, the restart loop takes the result
HillclimbReturn ==
  /\ pc = "return"
  /\ total_evaluations' = total_evaluations + num_evaluations
  /\ IF replaces(rc_best_tour, hc_best_score, rc_best_score)
     THEN rc_best_tour' = hc_best_tour /\ rc_best_score' = hc_best_score
     ELSE UNCHANGED <<rc_best_tour, rc_best_score>>
  /\ iteration_index' = iteration_index + 1
  /\ run_scores' = Append(run_scores, hc_best_score)
  /\ run_tours' = Append(run_tours, hc_best_tour)
  /\ pc' = "restart"
  /\ UNCHANGED <<inputVars, stage, hcVars, solveVars, histVars, opVars>>

(* -------------------------- solve_tsp_hillclimb ------------------------ *)
\* lines 304-310: the first stage returned
StageOneReturn ==
  /\ pc = "restart" /\ stage = 1
  /\ iteration_index = max_iterations
  /\ score_stage_one' = rc_best_score
  /\ stage_one_tour' = rc_best_tour
  /\ stage' = 2
  /\ pc' = "solve"
  /\ UNCHANGED <<inputVars, rcVars, hcVars, score_stage_two, improved_tour,
                 final_tour_base, final_tour, total_seconds, histVars, runVars, opVars>>

\* lines 323-344: the second stage returned; select, normalize, close
StageTwoReturn ==
  /\ pc = "restart" /\ stage = 2
  /\ iteration_index = max_iterations
  /\ score_stage_two' = rc_best_score
  /\ improved_tour' = rc_best_tour
  /\ final_tour_base' = IF selects_stage_two(rc_best_score, score_stage_one)
                        THEN rc_best_tour ELSE stage_one_tour
  /\ final_tour' = close_tour(final_tour_base')
  /\ pc' = "returned"
  /\ UNCHANGED <<inputVars, stage, rcVars, hcVars, score_stage_one, stage_one_tour,
                 total_seconds, histVars, runVars, opVars>>

(* --------------------------------- main -------------------------------- *)
\* main.py lines 144-150: the total the orchestration layer reports
MainReport ==
  /\ pc = "returned"
  /\ total_seconds' = tour_length_cycle(matrix, final_tour)
  /\ pc' = "done"
  /\ UNCHANGED <<inputVars, stage, rcVars, hcVars, score_stage_one, stage_one_tour,
                 score_stage_two, improved_tour, final_tour_base, final_tour,
                 histVars, runVars, opVars>>

Next ==
  \/ RestartBegin
  \/ HillclimbBegin
  \/ WhileTest
  \/ ForNext
  \/ HillclimbReturn
  \/ StageOneReturn
  \/ StageTwoReturn
  \/ MainReport

Spec == Init /\ [][Next]_vars

\* the program is one thread that always runs its next statement
FairSpec == Spec /\ WF_vars(Next)

(* ------------------- the list functions on their own ------------------- *)
\* tours: the permutations of 0..n-1 for n = 1..MaxLen
OpTours == UNION {Shuffles(n) : n \in 1..MaxLen}

\* every pair all_pairs(size) yields, over all outcomes of its two shuffles
ProducedPairs ==
  [size \in 1..MaxLen |->
     UNION {{all_pairs(size, r[1], r[2])[k] : k \in 1..(size * size)} :
            r \in Shuffles(size) \X Shuffles(size)}]

\* normalized closed paths [home, ..., home] over the same tours
ClosedPaths == {Append(t, Home) : t \in {u \in OpTours : u[1] = Home}}

InitOps ==
  /\ matrix = <<>> /\ max_iter = 0 /\ max_eval = 0
  /\ pc = "ops" /\ stage = 0
  /\ NoRestart /\ NoHillclimb /\ NoSolve
  /\ op_name = "none" /\ op_args = <<>> /\ op_out = <<>>
  /\ op_in \in OpTours \cup ClosedPaths
  /\ op_after = op_in

solverVars == <<inputVars, pc, stage, rcVars, hcVars, solveVars, histVars, runVars>>

\* reversed_sections(tour): the loop body for one pair all_pairs produces
CallReversedSections ==
  /\ pc = "ops" /\ op_in \in OpTours
  /\ \E p \in ProducedPairs[Len(op_in)] :
       /\ p[1] # p[2]
       /\ op_args' = p
       /\ op_out' = reversed_copy(op_in, p[1], p[2])
       /\ op_after' = reversed_tour_after(op_in, p[1], p[2])
  /\ op_name' = "reversed_sections"
  /\ UNCHANGED <<solverVars, op_in>>

\* shift_cities(tour): the loop body for one pair all_pairs produces
CallShiftCities ==
  /\ pc = "ops" /\ op_in \in OpTours
  /\ \E p \in ProducedPairs[Len(op_in)] :
       /\ p[1] # p[2]
       /\ op_args' = p
       /\ op_out' = shift_copy(op_in, p[1], p[2])
  /\ op_name' = "shift_cities"
  /\ op_after' = op_in
  /\ UNCHANGED <<solverVars, op_in>>

\* normalize_home_first(tour, home) for a home the list holds
CallNormalize ==
  /\ pc = "ops"
  /\ \E home \in {op_in[k] : k \in 1..Len(op_in)} :
       /\ op_args' = <<home>>
       /\ op_out' = normalize_home_first(op_in, home)
  /\ op_name' = "normalize_home_first"
  /\ op_after' = op_in
  /\ UNCHANGED <<solverVars, op_in>>

\* lines 337-344 of solve_tsp_hillclimb applied to a list that holds home
CallCloseTour ==
  /\ pc = "ops"
  /\ op_args' = <<Home>>
  /\ op_out' = close_tour(op_in)
  /\ op_name' = "close_tour"
  /\ op_after' = op_in
  /\ UNCHANGED <<solverVars, op_in>>

\* main.py line 172: compute_reverse_cycle(tour) on a normalized closed path
CallReverseCycle ==
  /\ pc = "ops" /\ op_in \in ClosedPaths
  /\ op_args' = <<>>
  /\ op_out' = compute_reverse_cycle(op_in)
  /\ op_name' = "compute_reverse_cycle"
  /\ op_after' = op_in
  /\ UNCHANGED <<solverVars, op_in>>

NextOps ==
  \/ CallReversedSections
  \/ CallShiftCities
  \/ CallNormalize
  \/ CallCloseTour
  \/ CallReverseCycle

SpecOps == InitOps /\ [][NextOps]_vars

(* ------------------------------ properties ----------------------------- *)
\* a hillclimb run is in progress or has just returned
InRun == pc \in {"while", "for", "return"}

\* solve_tsp_hillclimb has returned
Solved == pc \in {"returned", "done"}

\* the Tour invariant for the matrix of this run
TourOk(t) == IsPermutation(t, NumCities(matrix))

\* same length and the same number of occurrences of every index
SameCities(a, b) ==
  /\ Len(a) = Len(b)
  /\ \A c \in {a[k] : k \in 1..Len(a)} \cup {b[k] : k \in 1..Len(b)} :
       Count(a, c) = Count(b, c)

RECURSIVE PathSum(_, _, _)
\* cost(P[0], P[1]) + ... + cost(P[upto-1], P[upto]) for 0-based positions
PathSum(m, path, upto) ==
  IF upto = 0 THEN 0
  ELSE PathSum(m, path, upto - 1) + m[<<At(path, upto - 1), At(path, upto)>>]

\* 1-based number of the earliest run whose score is the maximum
FirstMax(scores) ==
  CHOOSE m \in 1..Len(scores) :
    /\ \A k \in 1..Len(scores) : scores[k] <= scores[m]
    /\ \A k \in 1..(m - 1) : scores[k] < scores[m]

\* tour with the element at position i removed and put back at position j
\* (index j - 1 of the shortened list when j > i, index j otherwise)
RemoveInsert(tour, i, j) ==
  LET removed == Slice(tour, 0, i) \o Slice(tour, i + 1, Len(tour))
      at == IF j > i THEN j - 1 ELSE j
  IN Slice(removed, 0, at) \o <<At(tour, i)>> \o Slice(removed, at, Len(removed))

\* C1: the path solve_tsp_hillclimb returns has length n + 1, starts and ends
\* at home, and holds every other index 1..n-1 exactly once in between,
\* wherever home stood in the selected tour.
C1_ClosedPathOfAllCities ==
  Solved =>
    LET n == NumCities(matrix)
    IN /\ Len(final_tour) = n + 1
       /\ final_tour[1] = Home
       /\ final_tour[n + 1] = Home
       /\ \A c \in 1..(n - 1) : Count(SubSeq(final_tour, 2, n), c) = 1

\* C2: the total main reports for the returned path is the sum of its
\* consecutive edges (closing edge once, nothing else) and equals the cycle
\* cost of the tour the solver selected.
C2_ReportedTotal ==
  pc = "done" =>
    /\ total_seconds = PathSum(matrix, final_tour, Len(final_tour) - 1)
    /\ total_seconds = 0 - fitness(matrix, final_tour_base)

\* C3: compute_reverse_cycle keeps the length and both home ends of a
\* normalized closed path and puts the interior in reversed order;
\* [0,3,2,1,0] becomes [0,1,2,3,0].
C3_ReverseCycle ==
  /\ compute_reverse_cycle(<<0, 3, 2, 1, 0>>) = <<0, 1, 2, 3, 0>>
  /\ op_name = "compute_reverse_cycle" =>
       /\ Len(op_out) = Len(op_in)
       /\ op_out[1] = Home /\ op_out[Len(op_out)] = Home
       /\ \A k \in 2..(Len(op_in) - 1) : op_out[k] = op_in[Len(op_in) + 1 - k]

C3_InteriorReversed ==
  /\ op_name = "compute_reverse_cycle"
  /\ Len(op_in) >= 4
  /\ op_out # op_in

\* C4: throughout a hillclimb run the evaluation counter stays in 1..E and
\* equals the number of objective calls made, also when the budget runs out
\* in the middle of a pass; so the returned num_evaluations is in 1..E.
C4_BudgetNeverExceeded ==
  InRun =>
    /\ num_evaluations \in 1..max_eval
    /\ obj_calls = num_evaluations

C4_BudgetSpentMidPass ==
  /\ pc = "return"
  /\ max_eval > 1
  /\ num_evaluations = max_eval
  /\ candidates # <<>>

\* C5: within a run (best_tour, best_score) changes only by taking the
\* candidate at hand, whose score is strictly greater; best_score is always
\* the objective value of best_tour and never below the initial score.
C5_BestOnlyImproves ==
  /\ [][(InRun /\ InRun') =>
          \/ <<hc_best_tour, hc_best_score>>' = <<hc_best_tour, hc_best_score>>
          \/ /\ candidates # <<>>
             /\ hc_best_tour' = Head(candidates)
             /\ hc_best_score' = fitness(matrix, Head(candidates))
             /\ hc_best_score' > hc_best_score]_vars
  /\ [](InRun => /\ hc_best_score = fitness(matrix, hc_best_tour)
                 /\ hc_best_score >= init_score)

C5_CandidateAccepted ==
  /\ pc = "return"
  /\ hc_best_score > init_score
  /\ hc_best_tour = last_candidate

\* C6: when the restart loop ends it holds the score and tour of the
\* earliest run whose score is the maximum of all runs: no run scored
\* higher, and a later run with an equal score did not replace it.
C6_FirstBestRunKept ==
  (pc = "restart" /\ iteration_index = max_iterations) =>
    /\ Len(run_scores) = max_iterations
    /\ \A k \in 1..Len(run_scores) : rc_best_score >= run_scores[k]
    /\ rc_best_score = run_scores[FirstMax(run_scores)]
    /\ rc_best_tour = run_tours[FirstMax(run_scores)]

C6_LaterTieNotTaken ==
  /\ pc = "restart" /\ iteration_index = max_iterations
  /\ \E k \in 1..Len(run_scores) :
       /\ k > FirstMax(run_scores)
       /\ run_scores[k] = rc_best_score
       /\ run_tours[k] # rc_best_tour

\* C7: for every pair i # j that all_pairs produces, i < j or i > j, the
\* tour reversed_sections builds has the length and the indices of the base
\* tour, each exactly once, and the base tour is as it was.
C7_ReversalKeepsTour ==
  op_name = "reversed_sections" =>
    /\ SameCities(op_out, op_in)
    /\ IsPermutation(op_out, Len(op_in))
    /\ op_after = op_in

C7_WraparoundReversed ==
  /\ op_name = "reversed_sections"
  /\ op_args[1] > op_args[2]
  /\ op_out # op_in

\* C8: normalize_home_first returns its input when the input starts with
\* home, and the normalization step of solve_tsp_hillclimb returns an
\* already closed path unchanged, so doing it twice equals doing it once.
C8_NormalizeIdempotent ==
  /\ (op_name = "normalize_home_first" /\ op_in[1] = op_args[1]) => op_out = op_in
  /\ (op_name = "close_tour" /\ op_in \in ClosedPaths) => op_out = op_in
  /\ op_name = "close_tour" => close_tour(op_out) = op_out

C8_ClosedPathNormalized ==
  /\ op_name = "close_tour"
  /\ op_in \in ClosedPaths
  /\ Len(op_in) >= 4

\* C9: for every pair i # j, j > i or j < i, shift_cities yields the tour
\* with the element at position i removed and put back at position j, of
\* length n and with the indices of the base tour.
C9_ShiftRelocates ==
  op_name = "shift_cities" =>
    /\ op_out = RemoveInsert(op_in, op_args[1], op_args[2])
    /\ SameCities(op_out, op_in)

\* C10: in every run of both stages the current best tour is a permutation
\* of 0..n-1, and so are the tour each stage returns and the selected tour.
C10_TourInvariantKept ==
  /\ InRun => TourOk(hc_best_tour)
  /\ rc_best_tour # <<>> => TourOk(rc_best_tour)
  /\ stage = 2 => TourOk(stage_one_tour)
  /\ Solved => TourOk(improved_tour) /\ TourOk(final_tour_base)

C10_BrokenCandidateRejected ==
  /\ stage = 2 /\ InRun
  /\ last_candidate # <<>>
  /\ ~ TourOk(last_candidate)
  /\ hc_best_tour # last_candidate

\* every list shift_cities can yield for tour: one per pair i # j
ShiftNeighbours(tour) ==
  {shift_copy(tour, i, j) : <<i, j>> \in
     {q \in (0..(Len(tour) - 1)) \X (0..(Len(tour) - 1)) : q[1] # q[2]}}

\* C11: every run of the second stage starts from the first stage's best
\* tour, enumerates shift_cities candidates under the caller's max_eval, and
\* there are exactly 2 such runs; the second stage's tour is selected only
\* on a strictly greater score, so on a tie the first stage's tour is kept
\* and the selected tour's fitness is the larger of the two stage scores.
C11_StageTwoPolishes ==
  /\ (stage = 2 /\ pc = "while" /\ num_evaluations = 1) =>
       hc_best_tour = stage_one_tour
  /\ (stage = 2 /\ pc = "for") =>
       \A k \in 1..Len(candidates) : candidates[k] \in ShiftNeighbours(hc_best_tour)
  /\ (stage = 2 /\ InRun) => num_evaluations <= max_eval
  /\ Solved =>
       /\ iteration_index = 2 /\ Len(run_scores) = 2
       /\ score_stage_two > score_stage_one => final_tour_base = improved_tour
       /\ score_stage_two <= score_stage_one => final_tour_base = stage_one_tour
       /\ fitness(matrix, final_tour_base) = Max(score_stage_one, score_stage_two)
       /\ fitness(matrix, final_tour_base) >= score_stage_one

C11_StageTwoSelected ==
  /\ Solved
  /\ score_stage_two > score_stage_one
  /\ final_tour_base = improved_tour
  /\ improved_tour # stage_one_tour

\* every candidate the move operator of this stage can yield for tour
Neighbourhood(tour) ==
  IF stage = 1
  THEN {reversed_copy(tour, q[1], q[2]) : q \in
          {x \in (0..(Len(tour) - 1)) \X (0..(Len(tour) - 1)) :
             reversed_yields(tour, x)}}
  ELSE ShiftNeighbours(tour)

\* the last pass ran through the whole neighbourhood of best_tour and no
\* candidate scores strictly higher than best_score
LocalOptimum ==
  /\ candidates = <<>>
  /\ Neighbourhood(hc_best_tour) \subseteq pass_evaluated
  /\ \A c \in Neighbourhood(hc_best_tour) : fitness(matrix, c) <= hc_best_score

\* a variant of the loops of hillclimb: twice the evaluations left, plus one
\* while the while test is still to be taken
RunMeasure ==
  2 * (max_eval - num_evaluations) + (IF pc = "while" THEN 1 ELSE 0)

\* C12 as stated: when hillclimb returns exactly one of the two holds, the
\* evaluation count reached E or a complete pass found no better candidate.
C12_ExactlyOneReason ==
  pc = "return" =>
    ((num_evaluations = max_eval) # (stop_reason = "no_improvement"))

\* C12 as amended: hillclimb always returns (inside a run a step is always
\* possible: a new pass needs only an outcome of the two shuffles, the end
\* of the while loop and a turn of the for loop are enabled; and every step
\* either returns or lowers a variant that never goes below zero), and only
\* because the evaluation count reached E or because a complete pass found
\* no better candidate (both can hold at once); when it returns with
\* num_evaluations < E the last pass evaluated the whole neighbourhood of
\* best_tour and nothing scores strictly higher; an improving candidate is
\* taken at once and the pass abandoned.
C12_StopsAtBudgetOrLocalOptimum ==
  /\ [](pc = "return" =>
          /\ stop_reason \in {"budget", "no_improvement"}
          /\ stop_reason = "budget" => num_evaluations = max_eval
          /\ stop_reason = "no_improvement" => LocalOptimum /\ ~ move_made
          /\ num_evaluations < max_eval => LocalOptimum)
  /\ [][(/\ pc = "for" /\ num_evaluations' = num_evaluations + 1
         /\ fitness(matrix, Head(candidates)) > hc_best_score) =>
          /\ hc_best_tour' = Head(candidates)
          /\ candidates' = <<>>
          /\ pc' = "while"]_vars
  /\ [](pc = "for" =>
          \A c \in pass_evaluated : fitness(matrix, c) <= hc_best_score)
  /\ [](pc \in {"while", "for"} =>
          /\ RunMeasure \in 0..(2 * max_eval + 1)
          /\ pc = "while" =>
               IF budget_left(num_evaluations, max_eval)
               THEN Shuffles(Len(hc_best_tour)) # {}
               ELSE ENABLED WhileTest
          /\ pc = "for" => ENABLED ForNext)
  /\ [][(pc \in {"while", "for"}) =>
          (pc' = "return" \/
           (pc' \in {"while", "for"} /\ RunMeasure' < RunMeasure))]_vars

C12_LocalOptimumWithBudgetLeft ==
  /\ pc = "return"
  /\ num_evaluations < max_eval
  /\ stop_reason = "no_improvement"
  /\ Cardinality(pass_evaluated) > 1

====
